---- MODULE Spec2Model ----
(***************************************************************************)
(* Model of ora/frame.py: the analysis of one video frame after another by *)
(* Frame.__init__ (get_players, get_killfeeds, validate, free) against the *)
(* match-scoped state of the Game object (team_colors, avatars_ref,        *)
(* frames).                                                                *)
(*                                                                         *)
(* Python indices are 0-based; a sequence of the model holds the element   *)
(* of Python index k at position k + 1.                                    *)
(***************************************************************************)
EXTENDS Integers, Sequences, FiniteSets

\* ---------------------------------------------------------------- bounds
\* number of frames the Game analyses in one run
MaxFrames == 2
\* multiprocessing.cpu_count() of the machine: workers of the pool
NumCpus == 2

\* ------------------------------------------------------- program constants
\* range(0, 12): player slots
NumPlayers == 12
\* i < 6: slots of the left team
TeamSize == 6
\* range(6): kill-feed slots
NumKillfeeds == 6
\* OW.FRAME_VALIDATION_COLOR_STD[game_type]
FRAME_VALIDATION_COLOR_STD == 2
\* OW.FRAME_VALIDATION_COLOR_MEAN[game_type]
FRAME_VALIDATION_COLOR_MEAN == 1
\* OW.FRAME_VALIDATION_REPLAY_PROB[game_type]
FRAME_VALIDATION_REPLAY_PROB == 2

\* ------------------------------------------------------------ input sets
None == "None"
\* game.team_colors while it is None
NoColors == [left |-> None, right |-> None]
\* game.avatars_ref while it is not set
NoAvatars == [left |-> <<None, None>>, left_small |-> <<None, None>>,
              right |-> <<None, None>>, right_small |-> <<None, None>>]
\* the image attribute after del self.image
NoImage == [colors |-> [left |-> "deleted", right |-> "deleted"], live |-> {}]
\* kill events a feed entry can show (content of a Killfeed)
Events == {"e1", "e2"}
\* the colours at the two team-colour pick positions of an image
Palettes == {[left |-> "blue", right |-> "red"],
             [left |-> "green", right |-> "white"]}
\* the slots whose player an image shows alive
LiveSets == {{}, {NumPlayers - 1}}
\* what the frame image decides and is read more than once
Images == [colors : Palettes, live : LiveSets]
\* values of np.std / np.mean / compare_ssim, scaled to integers: the values
\* on both sides of the threshold t they are compared with
Near(t) == {t - 1, t, t + 1}
\* std, mean, max_val, max_val_preseason while validate has not computed them
NoStat == 0 - 1
\* a Killfeed object: is_valid and, when valid, the event it shows
Killfeeds == {[is_valid |-> FALSE, event |-> None]}
             \cup [is_valid : {TRUE}, event : Events]

VARIABLES
    game_team_colors,   \* game.team_colors
    game_avatars_ref,   \* game.avatars_ref
    game_frames,        \* game.frames (of each frame, the tail of killfeeds)
    is_valid,           \* self.is_valid
    is_replay,          \* self.is_replay
    players,            \* self.players
    killfeeds,          \* self.killfeeds
    image,              \* self.image
    pc,                 \* position of the analysis thread in Frame.__init__
    i,                  \* loop index of get_players / get_killfeeds
    player_future,      \* get_players: the futures submitted so far
    pool_done,          \* slots whose worker has completed
    scanned,            \* get_killfeeds: the Killfeed objects built so far
    flag,               \* validate: flag
    std,                \* validate: std
    mean,               \* validate: np.mean(mean)
    max_val,            \* validate: max_val
    max_val_preseason,  \* validate: max_val_preseason
    synth_calls         \* executions of _get_avatars_before_validation
                        \* during the current frame

game == <<game_team_colors, game_avatars_ref, game_frames>>
frame == <<is_valid, is_replay, players, killfeeds, image>>
locals == <<i, player_future, pool_done, scanned, flag, std, mean,
            max_val, max_val_preseason>>
vars == <<game, frame, locals, pc, synth_calls>>

\* ------------------------------------------------------------- helpers
Reverse(s) == [k \in 1..Len(s) |-> s[Len(s) + 1 - k]]

\* Frame.get_team_colors_from_image
get_team_colors_from_image(img) ==
    [left |-> img.colors.left, right |-> img.colors.right]

\* Frame.get_team_colors
get_team_colors(team_colors, img) ==
    IF team_colors # NoColors THEN team_colors
    ELSE get_team_colors_from_image(img)

\* Frame._get_avatars_before_validation: icons overlaid on the team colours
get_avatars_before_validation(team_colors, img) ==
    LET colors == get_team_colors(team_colors, img)
    IN  [left        |-> <<"avatar", colors.left>>,
         left_small  |-> <<"avatar_small", colors.left>>,
         right       |-> <<"avatar", colors.right>>,
         right_small |-> <<"avatar_small", colors.right>>]

\* get_avatars with the test of game.team_colors lost: every call synthesizes
get_avatars_never_cached(index, team_colors, avatars_ref, img) ==
    LET all_avatars == get_avatars_before_validation(NoColors, img)
    IN  [ret |-> IF index < TeamSize
                 THEN [normal |-> all_avatars.left,
                       small  |-> all_avatars.left_small]
                 ELSE [normal |-> all_avatars.right,
                       small  |-> all_avatars.right_small],
         synth |-> 1]

\* get_avatars with "index <= 6": slot 6 is handed the left templates
get_avatars_side_slip(index, team_colors, avatars_ref, img) ==
    LET cached == team_colors # NoColors
        all_avatars == IF cached THEN avatars_ref
                       ELSE get_avatars_before_validation(team_colors, img)
    IN  [ret |-> IF index <= TeamSize
                 THEN [normal |-> all_avatars.left,
                       small  |-> all_avatars.left_small]
                 ELSE [normal |-> all_avatars.right,
                       small  |-> all_avatars.right_small],
         synth |-> IF cached THEN 0 ELSE 1]

\* Frame.get_avatars: the value returned (ret) and the number of template
\* syntheses the call executed (synth)
get_avatars(index, team_colors, avatars_ref, img) ==
    LET cached == team_colors # NoColors
        all_avatars == IF cached THEN avatars_ref
                       ELSE get_avatars_before_validation(team_colors, img)
    IN  [ret |-> IF index < TeamSize
                 THEN [normal |-> all_avatars.left,
                       small  |-> all_avatars.left_small]
                 ELSE [normal |-> all_avatars.right,
                       small  |-> all_avatars.right_small],
         synth |-> IF cached THEN 0 ELSE 1]

\* the arguments of pool.submit(Player, i, avatars, ..., name, team, ...)
PlayerTask(index, avatars) ==
    [index   |-> index,
     avatars |-> avatars,
     name    |-> IF index < TeamSize THEN <<"left", index>>
                 ELSE <<"right", index - TeamSize>>,
     team    |-> IF index < TeamSize THEN "left" ELSE "right"]

\* Player(...): the record the extraction of one submitted task returns
Player(task, img) ==
    [index   |-> task.index,
     name    |-> task.name,
     team    |-> task.team,
     is_dead |-> task.index \notin img.live]

\* what game.frames keeps of a frame: the code reads killfeeds[-1] only
Snapshot(feed) ==
    [killfeeds |-> IF feed = <<>> THEN <<>> ELSE <<feed[Len(feed)]>>]

\* ---------------------------------------------------------------- Init
Init ==
    /\ game_team_colors = NoColors
    /\ game_avatars_ref = NoAvatars
    /\ game_frames = <<>>
    /\ is_valid = FALSE
    /\ is_replay = FALSE
    /\ players = <<>>
    /\ killfeeds = <<>>
    /\ image = NoImage
    /\ pc = "idle"
    /\ i = 0
    /\ player_future = <<>>
    /\ pool_done = {}
    /\ scanned = <<>>
    /\ flag = FALSE
    /\ std = NoStat
    /\ mean = NoStat
    /\ max_val = NoStat
    /\ max_val_preseason = NoStat
    /\ synth_calls = 0

\* ------------------------------------------------------------- Game
\* positions of the analysis thread while an exception raised by
\* player.result(), by Killfeed(self, i) or by a statement of validate is
\* in flight in Frame.__init__
Excepting == {"except_get_players", "except_get_killfeeds", "except_validate"}

\* positions of the analysis thread after the exception has left
\* Frame.__init__
Raised == {"raised_get_players", "raised_get_killfeeds", "raised_validate"}

\* Game: the frame analysed last is appended to game.frames (a frame whose
\* constructor raised is never returned to the Game) and the next Frame is
\* constructed (Frame.__init__ up to the call of get_players)
Frame_init ==
    /\ pc \in {"idle", "done"} \cup Raised
    /\ Len(game_frames) + (IF pc = "done" THEN 1 ELSE 0) < MaxFrames
    /\ game_frames' = IF pc = "done"
                      THEN Append(game_frames, Snapshot(killfeeds))
                      ELSE game_frames
    /\ \E img \in Images : image' = img
    /\ is_valid' = FALSE
    /\ is_replay' = FALSE
    /\ players' = <<>>
    /\ killfeeds' = <<>>
    /\ i' = 0
    /\ synth_calls' = 0
    /\ pc' = "get_players"
    /\ UNCHANGED <<game_team_colors, game_avatars_ref, player_future,
                   pool_done, scanned, flag, std, mean, max_val,
                   max_val_preseason>>

\* ------------------------------------------------------- get_players
\* the submit loop storing the templates it synthesizes in the Game
get_players_submit_caches ==
    /\ pc = "get_players"
    /\ i < NumPlayers
    /\ LET avatars == get_avatars(i, game_team_colors, game_avatars_ref, image)
       IN  /\ player_future' = Append(player_future,
                                      PlayerTask(i, avatars.ret))
           /\ synth_calls' = synth_calls + avatars.synth
    /\ game_team_colors' = get_team_colors(game_team_colors, image)
    /\ game_avatars_ref' =
         get_avatars_before_validation(game_team_colors, image)
    /\ i' = i + 1
    /\ UNCHANGED <<game_frames, frame, pool_done, scanned, flag, std, mean,
                   max_val, max_val_preseason, pc>>

\* one iteration of "for i in range(0, 12)": get_avatars(i) and pool.submit
get_players_submit ==
    /\ pc = "get_players"
    /\ i < NumPlayers
    /\ LET avatars == get_avatars(i, game_team_colors, game_avatars_ref, image)
       IN  /\ player_future' = Append(player_future,
                                      PlayerTask(i, avatars.ret))
           /\ synth_calls' = synth_calls + avatars.synth
    /\ i' = i + 1
    /\ UNCHANGED <<game, frame, pool_done, scanned, flag, std, mean, max_val,
                   max_val_preseason, pc>>

\* the submit loop is over: "for player in player_future" starts
get_players_submitted ==
    /\ pc = "get_players"
    /\ i = NumPlayers
    /\ i' = 0
    /\ pc' = "join"
    /\ UNCHANGED <<game, frame, player_future, pool_done, scanned, flag, std,
                   mean, max_val, max_val_preseason, synth_calls>>

\* a worker process of the pool finishes the task of slot k; the pool runs
\* the submitted tasks in submission order on NumCpus workers
Player_worker(k) ==
    /\ pc \in {"get_players", "join"}
    /\ k < Len(player_future)
    /\ k \notin pool_done
    /\ Cardinality({j \in 0..(k - 1) : j \notin pool_done}) < NumCpus
    /\ pool_done' = pool_done \cup {k}
    /\ UNCHANGED <<game, frame, i, player_future, scanned, flag, std, mean,
                   max_val, max_val_preseason, pc, synth_calls>>

\* the loop collecting the results in the order of completion
get_players_result_as_completed ==
    /\ pc = "join"
    /\ i < NumPlayers
    /\ \E k \in pool_done :
         players' = Append(players, Player(player_future[k + 1], image))
    /\ i' = i + 1
    /\ UNCHANGED <<game, is_valid, is_replay, killfeeds, image, player_future,
                   pool_done, scanned, flag, std, mean, max_val,
                   max_val_preseason, pc, synth_calls>>

\* one iteration of "for player in player_future": player.result() blocks
\* until the future is done, its value is appended to self.players
get_players_result ==
    /\ pc = "join"
    /\ i < NumPlayers
    /\ i \in pool_done
    /\ players' = Append(players, Player(player_future[i + 1], image))
    /\ i' = i + 1
    /\ UNCHANGED <<game, is_valid, is_replay, killfeeds, image, player_future,
                   pool_done, scanned, flag, std, mean, max_val,
                   max_val_preseason, pc, synth_calls>>

\* player.result() re-raises the exception of the extraction of slot i:
\* it leaves get_players
get_players_result_raises ==
    /\ pc = "join"
    /\ i < NumPlayers
    /\ i \in pool_done
    /\ i' = 0
    /\ player_future' = <<>>
    /\ pool_done' = {}
    /\ pc' = "except_get_players"
    /\ UNCHANGED <<game, frame, scanned, flag, std, mean, max_val,
                   max_val_preseason, synth_calls>>

\* get_players without the loop over player_future: it returns at once
get_players_return_no_join ==
    /\ pc = "join"
    /\ i' = 0
    /\ player_future' = <<>>
    /\ pool_done' = {}
    /\ pc' = "get_killfeeds"
    /\ UNCHANGED <<game, frame, scanned, flag, std, mean, max_val,
                   max_val_preseason, synth_calls>>

\* get_players returns; its locals are gone
get_players_return ==
    /\ pc = "join"
    /\ i = NumPlayers
    /\ i' = 0
    /\ player_future' = <<>>
    /\ pool_done' = {}
    /\ pc' = "get_killfeeds"
    /\ UNCHANGED <<game, frame, scanned, flag, std, mean, max_val,
                   max_val_preseason, synth_calls>>

\* ------------------------------------------------------ get_killfeeds
\* Killfeed.__eq__: two entries show the same kill event
KillfeedEq(a, b) == a.event = b.event

\* the loop body with "elif i >= 0": an invalid slot 0 ends the scan
killfeeds_iteration_stop_at_0(killfeed, idx, feed, frames) ==
    IF killfeed.is_valid = TRUE
    THEN [killfeeds |-> Append(feed, killfeed),
          brk |-> /\ frames # <<>>
                  /\ frames[Len(frames)].killfeeds # <<>>
                  /\ LET last_frame == frames[Len(frames)].killfeeds
                         last_killfeed == last_frame[Len(last_frame)]
                     IN  KillfeedEq(killfeed, last_killfeed)]
    ELSE [killfeeds |-> feed, brk |-> idx >= 0]

\* the loop body without the elif: the scan goes on past an invalid slot
killfeeds_iteration_skip_gap(killfeed, idx, feed, frames) ==
    IF killfeed.is_valid = TRUE
    THEN [killfeeds |-> Append(feed, killfeed),
          brk |-> /\ frames # <<>>
                  /\ frames[Len(frames)].killfeeds # <<>>
                  /\ LET last_frame == frames[Len(frames)].killfeeds
                         last_killfeed == last_frame[Len(last_frame)]
                     IN  KillfeedEq(killfeed, last_killfeed)]
    ELSE [killfeeds |-> feed, brk |-> FALSE]

\* the loop body without the comparison with the previous frame
killfeeds_iteration_no_dedup(killfeed, idx, feed, frames) ==
    IF killfeed.is_valid = TRUE
    THEN [killfeeds |-> Append(feed, killfeed), brk |-> FALSE]
    ELSE [killfeeds |-> feed, brk |-> idx >= 1]

\* the body of "for i in range(6)" for the Killfeed built for slot idx:
\* the feed after it and whether the loop is left by break
killfeeds_iteration(killfeed, idx, feed, frames) ==
    IF killfeed.is_valid = TRUE
    THEN [killfeeds |-> Append(feed, killfeed),
          brk |-> /\ frames # <<>>
                  /\ frames[Len(frames)].killfeeds # <<>>
                  /\ LET last_frame == frames[Len(frames)].killfeeds
                         last_killfeed == last_frame[Len(last_frame)]
                     IN  KillfeedEq(killfeed, last_killfeed)]
    ELSE [killfeeds |-> feed, brk |-> idx >= 1]

\* one iteration of the loop of get_killfeeds: Killfeed(self, i) and the
\* tests on it
get_killfeeds_iteration ==
    /\ pc = "get_killfeeds"
    /\ i < NumKillfeeds
    /\ \E killfeed \in Killfeeds :
         LET r == killfeeds_iteration(killfeed, i, killfeeds, game_frames)
         IN  /\ scanned' = Append(scanned, killfeed)
             /\ killfeeds' = r.killfeeds
             /\ i' = IF r.brk THEN NumKillfeeds ELSE i + 1
    /\ UNCHANGED <<game, is_valid, is_replay, players, image, player_future,
                   pool_done, flag, std, mean, max_val, max_val_preseason, pc,
                   synth_calls>>

\* Killfeed(self, i) raises: the exception leaves get_killfeeds
get_killfeeds_raises ==
    /\ pc = "get_killfeeds"
    /\ i < NumKillfeeds
    /\ i' = 0
    /\ scanned' = <<>>
    /\ pc' = "except_get_killfeeds"
    /\ UNCHANGED <<game, frame, player_future, pool_done, flag, std, mean,
                   max_val, max_val_preseason, synth_calls>>

\* the loop is over: self.killfeeds.reverse(), get_killfeeds returns
get_killfeeds_reverse ==
    /\ pc = "get_killfeeds"
    /\ i = NumKillfeeds
    /\ killfeeds' = Reverse(killfeeds)
    /\ i' = 0
    /\ pc' = "validate"
    /\ UNCHANGED <<game, is_valid, is_replay, players, image, player_future,
                   pool_done, scanned, flag, std, mean, max_val,
                   max_val_preseason, synth_calls>>

\* ----------------------------------------------------------- validate
\* the loop with flag initialised to True
any_player_alive_flag_true(ps) == TRUE

\* the loop over self.players that computes flag
any_player_alive(ps) == \E k \in 1..Len(ps) : ps[k].is_dead = FALSE

\* the test with <= and >= in place of < and >
corner_ok_inclusive(s, m, f) ==
    /\ s <= FRAME_VALIDATION_COLOR_STD
    /\ m >= FRAME_VALIDATION_COLOR_MEAN
    /\ f = TRUE

\* the test of the corner statistics
corner_ok(s, m, f) ==
    /\ s < FRAME_VALIDATION_COLOR_STD
    /\ m > FRAME_VALIDATION_COLOR_MEAN
    /\ f = TRUE

\* max_val = max_val if max_val > max_val_preseason else max_val_preseason
larger_score(a, b) == IF a > b THEN a ELSE b

\* the test with <= in place of <
not_replay_inclusive(score) == score <= FRAME_VALIDATION_REPLAY_PROB

\* the test of the replay icon similarity
not_replay(score) == score < FRAME_VALIDATION_REPLAY_PROB

\* the test without "self.game.team_colors is None"
game_needs_setup_every_valid(valid, team_colors) == valid = TRUE

\* the test that guards the set-up of the Game info
game_needs_setup(valid, team_colors) == valid = TRUE /\ team_colors = NoColors

\* Game.set_team_colors(frame): the team colours picked from the frame
set_team_colors(img) == get_team_colors_from_image(img)

\* flag = False; for player in self.players: ...
validate_flag ==
    /\ pc = "validate"
    /\ flag' = any_player_alive(players)
    /\ scanned' = <<>>
    /\ pc' = "validate_liveness"
    /\ UNCHANGED <<game, frame, i, player_future, pool_done, std, mean,
                   max_val, max_val_preseason, synth_calls>>

\* the liveness test without the else branch "self.is_valid = True"
validate_liveness_no_else ==
    /\ pc = "validate_liveness"
    /\ IF flag = FALSE
       THEN is_valid' = FALSE /\ pc' = "validate_return"
       ELSE is_valid' = is_valid /\ pc' = "validate_stats"
    /\ UNCHANGED <<game, is_replay, players, killfeeds, image, locals,
                   synth_calls>>

\* if flag == False: is_valid = False; return / else: is_valid = True
validate_liveness ==
    /\ pc = "validate_liveness"
    /\ IF flag = FALSE
       THEN is_valid' = FALSE /\ pc' = "validate_return"
       ELSE is_valid' = TRUE /\ pc' = "validate_stats"
    /\ UNCHANGED <<game, is_replay, players, killfeeds, image, locals,
                   synth_calls>>

\* validation_roi, std and mean are computed from the image
validate_stats ==
    /\ pc = "validate_stats"
    /\ \E s \in Near(FRAME_VALIDATION_COLOR_STD) : std' = s
    /\ \E m \in Near(FRAME_VALIDATION_COLOR_MEAN) : mean' = m
    /\ pc' = "validate_corner"
    /\ UNCHANGED <<game, frame, i, player_future, pool_done, scanned, flag,
                   max_val, max_val_preseason, synth_calls>>

\* if std < ... and np.mean(mean) > ... and flag is True
validate_corner ==
    /\ pc = "validate_corner"
    /\ IF corner_ok(std, mean, flag)
       THEN is_valid' = TRUE /\ pc' = "validate_ssim"
       ELSE is_valid' = FALSE /\ pc' = "validate_return"
    /\ UNCHANGED <<game, is_replay, players, killfeeds, image, locals,
                   synth_calls>>

\* the two replay icon crops are compared with game.replay_icon_ref
validate_ssim ==
    /\ pc = "validate_ssim"
    /\ \E a \in Near(FRAME_VALIDATION_REPLAY_PROB) : max_val' = a
    /\ \E b \in Near(FRAME_VALIDATION_REPLAY_PROB) : max_val_preseason' = b
    /\ pc' = "validate_replay"
    /\ UNCHANGED <<game, frame, i, player_future, pool_done, scanned, flag,
                   std, mean, synth_calls>>

\* the replay test without "self.is_valid = False" in its else branch
validate_replay_keeps_valid ==
    /\ pc = "validate_replay"
    /\ max_val' = larger_score(max_val, max_val_preseason)
    /\ IF not_replay(max_val')
       THEN is_valid' = TRUE /\ is_replay' = is_replay
            /\ pc' = "validate_game"
       ELSE is_valid' = is_valid /\ is_replay' = TRUE
            /\ pc' = "validate_return"
    /\ UNCHANGED <<game, players, killfeeds, image, i, player_future,
                   pool_done, scanned, flag, std, mean, max_val_preseason,
                   synth_calls>>

\* max_val = the larger score; if max_val < ...: is_valid = True
\* else: is_valid = False; is_replay = True; return
validate_replay ==
    /\ pc = "validate_replay"
    /\ max_val' = larger_score(max_val, max_val_preseason)
    /\ IF not_replay(max_val')
       THEN is_valid' = TRUE /\ is_replay' = is_replay
            /\ pc' = "validate_game"
       ELSE is_valid' = FALSE /\ is_replay' = TRUE
            /\ pc' = "validate_return"
    /\ UNCHANGED <<game, players, killfeeds, image, i, player_future,
                   pool_done, scanned, flag, std, mean, max_val_preseason,
                   synth_calls>>

\* if self.is_valid is True and self.game.team_colors is None: ...
validate_game ==
    /\ pc = "validate_game"
    /\ IF game_needs_setup(is_valid, game_team_colors)
       THEN /\ game_team_colors' = set_team_colors(image)
            /\ game_avatars_ref' =
                 get_avatars_before_validation(game_team_colors', image)
            /\ synth_calls' = synth_calls + 1
       ELSE UNCHANGED <<game_team_colors, game_avatars_ref, synth_calls>>
    /\ pc' = "validate_return"
    /\ UNCHANGED <<game_frames, frame, locals>>

\* the computation of the corner statistics or of the similarity scores
\* raises: the exception leaves validate
validate_raises ==
    /\ pc \in {"validate_stats", "validate_ssim"}
    /\ flag' = FALSE
    /\ std' = NoStat
    /\ mean' = NoStat
    /\ max_val' = NoStat
    /\ max_val_preseason' = NoStat
    /\ pc' = "except_validate"
    /\ UNCHANGED <<game, frame, i, player_future, pool_done, scanned,
                   synth_calls>>

\* validate returns; its locals are gone
validate_return ==
    /\ pc = "validate_return"
    /\ flag' = FALSE
    /\ std' = NoStat
    /\ mean' = NoStat
    /\ max_val' = NoStat
    /\ max_val_preseason' = NoStat
    /\ pc' = "free"
    /\ UNCHANGED <<game, frame, i, player_future, pool_done, scanned,
                   synth_calls>>

\* --------------------------------------------------------------- free
\* free without the del
free_keeps_image ==
    /\ pc = "free"
    /\ pc' = "done"
    /\ UNCHANGED <<game, frame, locals, synth_calls>>

\* del self.image; Frame.__init__ returns
free ==
    /\ pc = "free"
    /\ image' = NoImage
    /\ pc' = "done"
    /\ UNCHANGED <<game, is_valid, is_replay, players, killfeeds, locals,
                   synth_calls>>

\* Frame.__init__ with a handler around the calls that frees the image and
\* returns the frame as it is
init_swallows ==
    /\ pc \in Excepting
    /\ is_valid' = FALSE
    /\ image' = NoImage
    /\ pc' = "done"
    /\ UNCHANGED <<game, is_replay, players, killfeeds, locals, synth_calls>>

\* Frame.__init__ has no handler around get_players, get_killfeeds and
\* validate: the exception leaves the constructor, free() is not called
init_propagates ==
    /\ pc \in Excepting
    /\ pc' = CASE pc = "except_get_players" -> "raised_get_players"
              [] pc = "except_get_killfeeds" -> "raised_get_killfeeds"
              [] pc = "except_validate" -> "raised_validate"
    /\ UNCHANGED <<game, frame, locals, synth_calls>>

Next ==
    \/ Frame_init
    \/ get_players_submit
    \/ get_players_submitted
    \/ \E k \in 0..(NumPlayers - 1) : Player_worker(k)
    \/ get_players_result
    \/ get_players_result_raises
    \/ get_players_return
    \/ get_killfeeds_iteration
    \/ get_killfeeds_raises
    \/ get_killfeeds_reverse
    \/ validate_flag
    \/ validate_liveness
    \/ validate_stats
    \/ validate_corner
    \/ validate_ssim
    \/ validate_replay
    \/ validate_game
    \/ validate_raises
    \/ validate_return
    \/ init_propagates
    \/ free

Spec == Init /\ [][Next]_vars

\* ==================================================================
\* Properties
\* ==================================================================

\* get_killfeeds has returned and validate has not started: scanned holds
\* the Killfeed objects of this frame, slot k at position k + 1
ScanDone == pc = "validate"

\* the previous frame (game.frames[-1]) has a non-empty feed
HasLastKillfeed ==
    /\ game_frames # <<>>
    /\ game_frames[Len(game_frames)].killfeeds # <<>>

\* game.frames[-1].killfeeds[-1]
LastKillfeed ==
    LET last_frame == game_frames[Len(game_frames)].killfeeds
    IN  last_frame[Len(last_frame)]

\* the valid candidates among those scanned, in slot order
ValidScanned == SelectSeq(scanned, LAMBDA c : c.is_valid)

\* C1: whenever the previous frame has a non-empty feed whose last entry is
\* content-equal to the slot-0 candidate of the current frame, the kill feed
\* of the current frame is empty after the scan.
C1_DedupSlot0GivesEmptyFeed ==
    (ScanDone /\ HasLastKillfeed /\ scanned[1].event = LastKillfeed.event)
        => killfeeds = <<>>

\* C2 (as claimed): if the slot-0 candidate is invalid the scan stops at
\* slot 0 and the kill feed is empty.
C2_InvalidSlot0StopsScan ==
    (ScanDone /\ scanned[1].is_valid = FALSE)
        => (Len(scanned) = 1 /\ killfeeds = <<>>)

\* C2 (amended): if the slot-0 candidate is invalid the scan goes on to
\* slot 1; the kill feed is empty exactly when the slot-1 candidate is
\* invalid too, and otherwise holds the valid candidates scanned from slot 1
\* on, newest last.
C2_InvalidSlot0ContinuesScan ==
    (ScanDone /\ scanned[1].is_valid = FALSE)
        => /\ Len(scanned) >= 2
           /\ (killfeeds = <<>>) <=> (scanned[2].is_valid = FALSE)
           /\ killfeeds = Reverse(ValidScanned)

C2_Witness ==
    /\ ScanDone
    /\ scanned[1].is_valid = FALSE
    /\ Len(killfeeds) >= 2

\* C3: for every k in 1..5, if the candidates of slots 0..k-1 are valid and
\* none matches the dedup reference, and the candidate of slot k is invalid,
\* the feed is exactly the entries of slots 0..k-1 (stored newest last) and
\* no slot after k is scanned.
C3_FirstGapEndsScan ==
    \A k \in 1..(NumKillfeeds - 1) :
        ( /\ ScanDone
          /\ Len(scanned) >= k + 1
          /\ \A j \in 1..k :
                /\ scanned[j].is_valid = TRUE
                /\ ~(HasLastKillfeed /\ scanned[j].event = LastKillfeed.event)
          /\ scanned[k + 1].is_valid = FALSE )
        => /\ killfeeds = Reverse(SubSeq(scanned, 1, k))
           /\ Len(scanned) = k + 1

C3_Witness ==
    /\ ScanDone
    /\ HasLastKillfeed
    /\ Len(scanned) = 3
    /\ scanned[1].is_valid = TRUE
    /\ scanned[2].is_valid = TRUE
    /\ scanned[3].is_valid = FALSE
    /\ Len(killfeeds) = 2

\* validate has classified the frame (is_valid and is_replay are final)
Classified == pc \in {"validate_return", "free", "done"}

\* C4: team_colors and avatars_ref are written at most once: they stay unset
\* until the first frame that validate finds valid, are written by that
\* frame, and no later step changes them.
C4_GameInfoWrittenOnce ==
    /\ [](/\ (game_team_colors = NoColors) <=> (game_avatars_ref = NoAvatars)
          /\ (Classified /\ is_valid = TRUE) => game_team_colors # NoColors)
    /\ [][/\ game_team_colors # NoColors
             => UNCHANGED <<game_team_colors, game_avatars_ref>>
          /\ <<game_team_colors, game_avatars_ref>>'
               # <<game_team_colors, game_avatars_ref>>
             => /\ pc = "validate_game"
                /\ is_valid = TRUE
                /\ game_team_colors' = get_team_colors_from_image(image)
                /\ game_avatars_ref' # NoAvatars]_vars

\* a later valid frame whose image shows other colours than those cached
C4_Witness ==
    /\ pc = "validate_return"
    /\ is_valid = TRUE
    /\ game_frames # <<>>
    /\ game_team_colors # get_team_colors_from_image(image)

\* C5 (as claimed): template synthesis runs at most once, and only for the
\* first frame that passes validation.
C5_SynthesisOnlyOnceForValidFrame ==
    \/ synth_calls = 0
    \/ synth_calls = 1 /\ Classified /\ is_valid = TRUE

\* C5 (amended): synthesis runs only while the Game holds no team colours:
\* once per player slot in get_players of every frame analysed until then,
\* valid or not, and once more in validate of the first valid frame; once
\* team colours are held it never runs again.
C5_SynthesisOnlyWhileNotCached ==
    /\ [](/\ (pc = "get_players" /\ game_team_colors = NoColors)
             => synth_calls = i
          /\ (pc \notin {"idle", "get_players"}
                /\ game_team_colors = NoColors)
             => synth_calls = NumPlayers
          /\ game_team_colors # NoColors
             => \/ synth_calls = 0
                \/ /\ synth_calls = NumPlayers + 1
                   /\ Classified
                   /\ is_valid = TRUE)
    /\ [][synth_calls' > synth_calls => game_team_colors = NoColors]_vars

\* a frame that is not valid and for which synthesis ran 12 times
C5_Witness ==
    /\ pc = "done"
    /\ is_valid = FALSE
    /\ synth_calls = NumPlayers

\* C6: once the Game holds team colours and templates, every get_avatars
\* call of a later frame returns the cached templates of the slot's side,
\* synthesizes nothing and leaves the Game unchanged.
C6_CachedAvatarsReturned ==
    /\ []((pc \in {"get_players", "join"} /\ game_team_colors # NoColors)
            => /\ synth_calls = 0
               /\ \A k \in 1..Len(player_future) :
                    player_future[k].avatars =
                        IF k <= TeamSize
                        THEN [normal |-> game_avatars_ref.left,
                              small  |-> game_avatars_ref.left_small]
                        ELSE [normal |-> game_avatars_ref.right,
                              small  |-> game_avatars_ref.right_small])
    /\ [][pc = "get_players" => UNCHANGED game]_vars

\* all 12 calls of a frame whose image shows other colours than the cached
C6_Witness ==
    /\ pc = "join"
    /\ Len(player_future) = NumPlayers
    /\ game_team_colors # NoColors
    /\ game_team_colors # get_team_colors_from_image(image)

\* all 12 player records report dead
AllDead ==
    /\ Len(players) = NumPlayers
    /\ \A k \in 1..NumPlayers : players[k].is_dead = TRUE

\* C7: a frame whose 12 players are all dead ends validate as invalid
\* (is_valid false, is_replay false); the other gates are never reached.
C7_AllDeadIsInvalid ==
    AllDead
        => /\ is_valid = FALSE
           /\ is_replay = FALSE
           /\ pc \notin {"validate_stats", "validate_corner", "validate_ssim",
                         "validate_replay", "validate_game"}

C7_Witness ==
    /\ pc = "done"
    /\ AllDead

\* C8: for a frame that has passed the liveness and corner gates, the
\* outcome is invalid-replay exactly when the larger of the two similarity
\* scores is >= the threshold (equality included) and valid exactly when it
\* is below.
C8_ReplayGate ==
    [][pc = "validate_replay"
        => LET larger == IF max_val >= max_val_preseason
                         THEN max_val ELSE max_val_preseason
           IN  IF larger >= FRAME_VALIDATION_REPLAY_PROB
               THEN /\ is_valid' = FALSE
                    /\ is_replay' = TRUE
                    /\ pc' = "validate_return"
               ELSE /\ is_valid' = TRUE
                    /\ is_replay' = FALSE
                    /\ pc' = "validate_game"]_vars

\* a score equal to the threshold has given invalid-replay
C8_Witness ==
    /\ pc = "validate_return"
    /\ is_replay = TRUE
    /\ is_valid = FALSE
    /\ max_val = FRAME_VALIDATION_REPLAY_PROB

\* C9: for a frame that has passed the liveness gate, validate ends as
\* invalid with is_replay false exactly when std >= the std threshold or
\* mean <= the mean threshold, and then the replay gate is not evaluated.
C9_CornerGate ==
    (pc = "validate_return" /\ flag = TRUE)
        => LET fails == \/ std >= FRAME_VALIDATION_COLOR_STD
                        \/ mean <= FRAME_VALIDATION_COLOR_MEAN
           IN  /\ (is_valid = FALSE /\ is_replay = FALSE) <=> fails
               /\ fails => /\ max_val = NoStat
                           /\ max_val_preseason = NoStat

\* std equal to its threshold, mean above its threshold: invalid
C9_Witness ==
    /\ pc = "validate_return"
    /\ flag = TRUE
    /\ std = FRAME_VALIDATION_COLOR_STD
    /\ mean > FRAME_VALIDATION_COLOR_MEAN
    /\ is_valid = FALSE
    /\ is_replay = FALSE

\* C10: when the analysis of a frame has ended with a classification, the
\* frame no longer holds its image; it holds it throughout the analysis.
C10_ImageReleased ==
    /\ pc = "done" => image = NoImage
    /\ pc \notin {"idle", "done"} => image \in Images

\* analysis has ended as invalid-replay
C10_Witness ==
    /\ pc = "done"
    /\ is_valid = FALSE
    /\ is_replay = TRUE

\* C11: when the analysis of a frame ends with an error, the image has been
\* released as well: no exit from Frame.__init__ leaves it held.
C11_ImageReleasedOnError ==
    pc \in Raised => image = NoImage

\* the record Player(...) returns for slot k - 1 of the frame
ExpectedPlayer(k) ==
    [index   |-> k - 1,
     name    |-> IF k <= TeamSize THEN <<"left", k - 1>>
                 ELSE <<"right", k - 1 - TeamSize>>,
     team    |-> IF k <= TeamSize THEN "left" ELSE "right",
     is_dead |-> (k - 1) \notin image.live]

\* C12: whatever the order in which the workers complete, players[i] is the
\* result of the extraction submitted for slot i (slots 0..5 with the left
\* team, 6..11 with the right team), and once get_players has returned
\* players has exactly 12 records.
C12_PlayersInSubmissionOrder ==
    /\ pc \notin {"idle", "done"}
         => \A k \in 1..Len(players) : players[k] = ExpectedPlayer(k)
    /\ \A k \in 1..Len(players) :
         /\ players[k].index = k - 1
         /\ players[k].team = IF k <= TeamSize THEN "left" ELSE "right"
    /\ pc \notin {"idle", "get_players", "join", "except_get_players",
                  "raised_get_players"}
         => Len(players) = NumPlayers

\* slot 11 has completed while slot 5 is still running, slots 0..4 collected
C12_Witness ==
    /\ pc = "join"
    /\ Len(players) = 5
    /\ 5 \notin pool_done
    /\ (NumPlayers - 1) \in pool_done

\* C13: if a player extraction or a kill-feed extraction fails, the analysis
\* ends in an error that leaves Frame.__init__: validate does not run, the
\* frame does not end with a classification and is not handed to the Game,
\* and team_colors / avatars_ref are left as they were.
C13_ExtractionFaultPropagates ==
    /\ [](pc \in {"except_get_players", "except_get_killfeeds",
                  "raised_get_players", "raised_get_killfeeds"}
            => /\ is_valid = FALSE
               /\ is_replay = FALSE
               /\ flag = FALSE
               /\ std = NoStat
               /\ max_val = NoStat
               /\ synth_calls <= NumPlayers)
    /\ [][/\ pc \in {"except_get_players", "except_get_killfeeds"}
             => /\ pc' \in {"raised_get_players", "raised_get_killfeeds"}
                /\ UNCHANGED <<game, frame>>
          /\ pc \in {"raised_get_players", "raised_get_killfeeds"}
             => /\ pc' = "get_players"
                /\ UNCHANGED game
          /\ pc \in {"get_players", "join", "get_killfeeds"}
             => UNCHANGED game]_vars

\* the extraction of a kill-feed slot has failed after an entry was stored
C13_Witness ==
    /\ pc = "raised_get_killfeeds"
    /\ killfeeds # <<>>
    /\ game_team_colors = NoColors

\* C14: no entry of a frame's stored feed is content-equal to the last
\* entry of the stored feed of the preceding frame.
C14_NoEntryOfPreviousFrameRepeated ==
    (pc = "done" /\ HasLastKillfeed)
        => \A k \in 1..Len(killfeeds) :
              killfeeds[k].event # LastKillfeed.event

\* the candidate of slot j - 1 is valid and content-equal to the last entry
\* of the preceding frame's feed
MatchesLast(j) ==
    /\ HasLastKillfeed
    /\ scanned[j].is_valid = TRUE
    /\ scanned[j].event = LastKillfeed.event

\* C15: the slots are scanned in order and the scan stops right after the
\* first valid candidate equal to the last entry of the preceding frame's
\* feed; without such a reference no comparison stops it and every valid
\* slot up to the first gap is kept; the stored feed is the scanned entries
\* in reverse slot order and has at most 6 entries.
C15_ScanStopsAtMatchAndReverses ==
    ScanDone
        => /\ Len(scanned) \in 1..NumKillfeeds
           /\ Len(killfeeds) \in 0..NumKillfeeds
           /\ killfeeds = Reverse(ValidScanned)
           /\ \A j \in 1..Len(scanned) :
                /\ MatchesLast(j) => j = Len(scanned)
                /\ scanned[j].is_valid = FALSE
                     => (j = 1 \/ j = Len(scanned))
           /\ Len(scanned) < NumKillfeeds
                => \/ MatchesLast(Len(scanned))
                   \/ /\ scanned[Len(scanned)].is_valid = FALSE
                      /\ Len(scanned) >= 2
           /\ ~HasLastKillfeed
                => \/ Len(scanned) = NumKillfeeds
                   \/ scanned[Len(scanned)].is_valid = FALSE

\* the scan has stopped at slot 2, whose candidate matches the reference:
\* it is stored first, the candidate of slot 0 last
C15_Witness ==
    /\ ScanDone
    /\ Len(scanned) = 3
    /\ MatchesLast(3)
    /\ Len(killfeeds) = 3
    /\ killfeeds[1] = scanned[3]
    /\ killfeeds[3] = scanned[1]

\* C16: within one frame no kill-feed slot is extracted and no gate is
\* evaluated before all 12 player extractions have completed and their
\* results are stored, and validate starts only after get_killfeeds has
\* finished.
C16_JoinBeforeKillfeedsBeforeValidate ==
    /\ [](/\ pc \in {"get_players", "join", "except_get_players",
                     "raised_get_players"}
               => /\ scanned = <<>>
                  /\ killfeeds = <<>>
                  /\ flag = FALSE
                  /\ is_valid = FALSE
                  /\ std = NoStat
                  /\ max_val = NoStat
          /\ pc \in {"get_killfeeds", "validate", "validate_liveness",
                     "validate_stats", "validate_corner", "validate_ssim",
                     "validate_replay", "validate_game", "validate_return"}
               => /\ Len(players) = NumPlayers
                  /\ player_future = <<>>
          /\ pc \in {"validate_liveness", "validate_stats", "validate_corner",
                     "validate_ssim", "validate_replay", "validate_game",
                     "validate_return"}
               => scanned = <<>>)
    /\ [][/\ (pc' = "get_killfeeds" /\ pc # "get_killfeeds")
             => /\ pc = "join"
                /\ Len(players) = NumPlayers
                /\ pool_done = 0..(NumPlayers - 1)
          /\ (pc' = "validate" /\ pc # "validate")
             => /\ pc = "get_killfeeds"
                /\ i = NumKillfeeds]_vars

\* the first kill-feed slot has been extracted, 12 players are stored
C16_Witness ==
    /\ pc = "get_killfeeds"
    /\ Len(scanned) = 1
    /\ Len(players) = NumPlayers

\* C17 (as claimed): during validate is_valid goes from pending directly to
\* its final value: once it holds True it is not set back to False.
C17_ValiditySetOnce ==
    [][(is_valid = TRUE /\ pc' # "get_players") => is_valid' = TRUE]_vars

\* C17 (amended): is_valid is assigned at every gate: it is False until the
\* liveness gate, True from the passing of the liveness gate at every later
\* point of validate until a gate fails and sets it back to False; it is
\* final once validate returns, and is_replay changes at most once, to True
\* together with is_valid False.
C17_ValidityRewrittenByGates ==
    /\ [](/\ pc \in {"get_players", "join", "get_killfeeds", "validate",
                     "validate_liveness"}
               => (is_valid = FALSE /\ is_replay = FALSE)
          /\ pc \in {"validate_stats", "validate_corner", "validate_ssim",
                     "validate_replay", "validate_game"}
               => (is_valid = TRUE /\ is_replay = FALSE))
    /\ [][/\ pc \in {"validate_return", "free"}
             => UNCHANGED <<is_valid, is_replay>>
          /\ (is_replay = FALSE /\ is_replay' = TRUE)
             => (pc = "validate_replay" /\ is_valid' = FALSE)
          /\ (is_replay = TRUE /\ is_replay' = FALSE)
             => pc' = "get_players"]_vars

\* a validation that ends invalid at the corner gate, after is_valid held
\* True
C17_Witness ==
    /\ pc = "validate_return"
    /\ is_valid = FALSE
    /\ is_replay = FALSE
    /\ std # NoStat

\* C18: is_valid and is_replay are never both true, so a finished frame has
\* one of the three combinations; is_replay is true only for a frame with a
\* live player that has passed the corner gate.
C18_FlagCombinations ==
    /\ ~(is_valid = TRUE /\ is_replay = TRUE)
    /\ is_replay = TRUE
         => /\ Len(players) = NumPlayers
            /\ \E k \in 1..NumPlayers : players[k].is_dead = FALSE
            /\ pc = "validate_return"
                 => /\ flag = TRUE
                    /\ std < FRAME_VALIDATION_COLOR_STD
                    /\ mean > FRAME_VALIDATION_COLOR_MEAN

\* validate has returned invalid-replay
C18_Witness ==
    /\ pc = "free"
    /\ is_replay = TRUE

\* C19: a frame that ends invalid or invalid-replay leaves team_colors and
\* avatars_ref as they were, also when its get_players had to synthesize
\* templates: get_players, get_avatars and get_killfeeds never write the
\* Game, and the frame that writes it ends valid.
C19_InvalidFrameLeavesGame ==
    /\ []((Classified /\ is_valid = FALSE /\ synth_calls = NumPlayers)
            => (game_team_colors = NoColors /\ game_avatars_ref = NoAvatars))
    /\ [][/\ pc \in {"get_players", "join", "get_killfeeds", "validate"}
             => UNCHANGED <<game_team_colors, game_avatars_ref>>
          /\ <<game_team_colors, game_avatars_ref>>'
               # <<game_team_colors, game_avatars_ref>>
             => /\ is_valid = TRUE
                /\ is_valid' = TRUE
                /\ pc' = "validate_return"
          /\ (pc \in {"validate_return", "free"} /\ is_valid = TRUE)
             => is_valid' = TRUE]_vars

\* an invalid-replay frame whose get_players synthesized 12 times
C19_Witness ==
    /\ pc = "done"
    /\ is_replay = TRUE
    /\ synth_calls = NumPlayers
    /\ game_team_colors = NoColors

====
